---- MODULE Spec2Model ----
(***************************************************************************)
(* Read-through cache of the Express backend: the Redis client wrapper     *)
(* (backend/src/config/redis.js), its start-up call (backend/src/app.js)   *)
(* and the GET /api/products handler (backend/src/routes/products.js).     *)
(***************************************************************************)
EXTENDS Integers, Sequences, FiniteSets, TLC

(* ---------------------------- bounds ---------------------------------- *)

\* longest list of objects given to JSON.stringify in the round-trip law
MaxListLen == 2
\* number of request slots that can be in flight at the same time
MaxReq == 2
\* cap on the connection attempts counted (the code makes at most one)
MaxAttempts == 2

\* granularity of the passage of time, in seconds
TickSeconds == 30

(* ------------------------- program constants -------------------------- *)

\* TTL handed to setEx, in seconds
TTL == 60
\* HTTP status of res.json and of res.status(500)
StatusOK == 200
StatusError == 500

NULL == "null"
CLIENT == "client"
cacheKey == "products:all"

\* socket.reconnectStrategy given to createClient
reconnectStrategyRetry == TRUE
reconnectStrategy == FALSE

\* the static list the handler serves after the simulated DB delay
Products == << [id |-> 1, name |-> "Laptop"], [id |-> 2, name |-> "Phone"] >>

(* ----------------------- JSON.stringify / JSON.parse ------------------ *)
\* A JSON text is the sequence of its tokens.

NumTok == [n \in 1..2 |-> IF n = 1 THEN "1" ELSE "2"]
NumToks == {NumTok[n] : n \in DOMAIN NumTok}
TokNum(t) == CHOOSE n \in DOMAIN NumTok : NumTok[n] = t
Names == {"Laptop", "Phone"}

ObjTokens(o) ==
    << "{", "id", ":", NumTok[o.id], ",", "name", ":", o.name, "}" >>

RECURSIVE JoinObjs(_)
JoinObjs(v) ==
    IF v = << >> THEN << >>
    ELSE IF Len(v) = 1 THEN ObjTokens(Head(v))
    ELSE ObjTokens(Head(v)) \o << "," >> \o JoinObjs(Tail(v))

JSONstringify(v) == << "[" >> \o JoinObjs(v) \o << "]" >>

ObjOK(t) ==
    /\ Len(t) = 9
    /\ t[1] = "{" /\ t[2] = "id" /\ t[3] = ":" /\ t[4] \in NumToks
    /\ t[5] = "," /\ t[6] = "name" /\ t[7] = ":" /\ t[8] \in Names
    /\ t[9] = "}"

ObjVal(t) == [id |-> TokNum(t[4]), name |-> t[8]]

ParseFail == [ok |-> FALSE, val |-> << >>]

RECURSIVE ParseElems(_)
ParseElems(toks) ==
    IF Len(toks) < 9 THEN ParseFail
    ELSE LET first == SubSeq(toks, 1, 9) IN
         IF ~ObjOK(first) THEN ParseFail
         ELSE IF Len(toks) = 9 THEN [ok |-> TRUE, val |-> << ObjVal(first) >>]
         ELSE IF toks[10] # "," THEN ParseFail
         ELSE LET rest == ParseElems(SubSeq(toks, 11, Len(toks))) IN
              IF rest.ok THEN [ok |-> TRUE, val |-> << ObjVal(first) >> \o rest.val]
              ELSE ParseFail

\* JSON.parse: ok = FALSE stands for the SyntaxError it throws
JSONparse(s) ==
    IF Len(s) < 2 \/ s[1] # "[" \/ s[Len(s)] # "]" THEN ParseFail
    ELSE IF Len(s) = 2 THEN [ok |-> TRUE, val |-> << >>]
    ELSE ParseElems(SubSeq(s, 2, Len(s) - 1))

(* ------------------------ the cache service --------------------------- *)

\* what redis.get resolves to: null when the key is absent, else the string
Absent == [present |-> FALSE, val |-> << >>, ttl |-> 0, written |-> FALSE]
Entry(s, t) == [present |-> TRUE, val |-> s, ttl |-> t, written |-> FALSE]

\* the stored entry was written by a setEx and has not expired
Populated(c) == c.present /\ c.written

\* a value cut short: not JSON
Truncated == SubSeq(JSONstringify(Products), 1, 12)
EmptyString == << >>

InitialEntries ==
    {Absent} \cup {Entry(s, TTL) : s \in {Truncated, EmptyString, JSONstringify(Products)}}

(* ----------------------------- state ---------------------------------- *)

VARIABLES
    REDIS_ENABLED,    \* process.env.REDIS_ENABLED
    redisClient,      \* module variable of redis.js
    redisReady,       \* module variable of redis.js
    connPc,           \* position of connectRedis: "init", "awaiting", "returned", "threw"
    connResult,       \* what connectRedis returned
    startup,          \* the start-up IIFE of app.js: "pending", "completed", "caught"
    lib,              \* the client's connection: "none", "connecting", "ready", "errored", "ended"
    cache,            \* the entry stored under cacheKey by the cache service
    svc,              \* the cache service: "up", or "silent" when it answers nothing
    req,              \* the GET /api/products requests
    alive,            \* the Node process is running
    other,            \* the last response of GET /health and GET /api/users
    connectAttempts,  \* history: connection attempts made
    connectFailed,    \* history: the connect() of connectRedis rejected
    lostConn          \* history: redisReady went from TRUE to FALSE

vars == << REDIS_ENABLED, redisClient, redisReady, connPc, connResult, startup,
           lib, cache, svc, req, alive, other, connectAttempts, connectFailed,
           lostConn >>

Reqs == 1..MaxReq

NoResponse == << >>

IdleReq ==
    [pc |-> "idle", redis |-> NULL, resp |-> NoResponse,
     didGet |-> FALSE, didSource |-> FALSE, didSet |-> FALSE,
     hit |-> FALSE, sawCorrupt |-> FALSE, getFailed |-> FALSE, setOk |-> FALSE,
     afterFail |-> FALSE, afterLoss |-> FALSE,
     miss |-> FALSE, setFailed |-> FALSE, raced |-> FALSE, startedLive |-> FALSE]

\* mock user data of app.js
users ==
    << [id |-> 1, name |-> "John Doe", email |-> "john@example.com", role |-> "Developer"],
       [id |-> 2, name |-> "Jane Smith", email |-> "jane@example.com", role |-> "Designer"],
       [id |-> 3, name |-> "Bob Johnson", email |-> "bob@example.com", role |-> "Manager"],
       [id |-> 4, name |-> "Alice Williams", email |-> "alice@example.com", role |-> "Developer"],
       [id |-> 5, name |-> "Charlie Brown", email |-> "charlie@example.com", role |-> "DevOps"] >>

NoOther == [route |-> "none", status |-> 0, ok |-> "", count |-> 0, data |-> << >>]
\* res.status(200).json({ status: "ok", message: "Backend is healthy" })
HealthResponse ==
    [route |-> "/health", status |-> StatusOK, ok |-> "ok", count |-> 0, data |-> << >>]
\* res.status(200).json({ success: true, count: users.length, data: users })
UsersResponse ==
    [route |-> "/api/users", status |-> StatusOK, ok |-> "true", count |-> Len(users),
     data |-> users]

Init ==
    /\ REDIS_ENABLED \in {"true", "false", "undefined"}
    /\ redisClient = NULL
    /\ redisReady = FALSE
    /\ connPc = "init"
    /\ connResult = NULL
    /\ startup = "pending"
    /\ lib = "none"
    /\ cache \in InitialEntries
    /\ svc = "up"
    /\ req = [r \in Reqs |-> IdleReq]
    /\ alive = TRUE
    /\ other = NoOther
    /\ connectAttempts = 0
    /\ connectFailed = FALSE
    /\ lostConn = FALSE

(* ------------------------ backend/src/config/redis.js ----------------- *)

\* process.env.REDIS_ENABLED !== "true"
RedisDisabledViaEnvLoose == REDIS_ENABLED = "false"
RedisDisabledViaEnv == REDIS_ENABLED # "true"

\* bodies of the "ready", "end" and "error" listeners: the value given to redisReady
OnReady == TRUE
OnEndSetsTrue == TRUE
OnEnd == FALSE
OnError == FALSE

\* the catch block of connectRedis: redisClient, redisReady, and how the call ends
CatchOutcomeRethrow ==
    [client |-> redisClient, ready |-> redisReady, pc |-> "threw", result |-> NULL,
     exit |-> FALSE]
CatchOutcomeExit ==
    [client |-> NULL, ready |-> FALSE, pc |-> "returned", result |-> NULL,
     exit |-> TRUE]
CatchOutcome ==
    [client |-> NULL, ready |-> FALSE, pc |-> "returned", result |-> NULL,
     exit |-> FALSE]

\* the start-up IIFE of app.js once connectRedis has ended in state p
StartupAfter(p) == IF p = "threw" THEN "caught" ELSE "completed"

getRedisClientNoReadyCheck == redisClient
getRedisClient ==
    IF redisClient = NULL \/ ~redisReady THEN NULL ELSE redisClient

\* connectRedis up to its await, called once by the IIFE of app.js
ConnectRedis ==
    /\ connPc = "init"
    /\ IF RedisDisabledViaEnv
       THEN /\ connPc' = "returned"
            /\ connResult' = NULL
            /\ startup' = StartupAfter("returned")
            /\ UNCHANGED << redisClient, lib, connectAttempts >>
       ELSE /\ redisClient' = CLIENT
            /\ lib' = "connecting"
            /\ connectAttempts' = connectAttempts + 1
            /\ connPc' = "awaiting"
            /\ UNCHANGED << connResult, startup >>
    /\ UNCHANGED << REDIS_ENABLED, redisReady, cache, svc, req, alive, other,
                    connectFailed, lostConn >>

\* the client emits "ready"; when connectRedis awaits connect(), the promise
\* resolves in the same turn and connectRedis returns redisClient
ReadyEvent ==
    /\ lib = "connecting"
    /\ lib' = "ready"
    /\ redisReady' = OnReady
    /\ IF connPc = "awaiting"
       THEN /\ connPc' = "returned"
            /\ connResult' = redisClient
            /\ startup' = StartupAfter("returned")
       ELSE UNCHANGED << connPc, connResult, startup >>
    /\ UNCHANGED << REDIS_ENABLED, redisClient, cache, svc, req, alive, other,
                    connectAttempts, connectFailed, lostConn >>

\* connect() rejects: the catch block runs
ConnectReject ==
    /\ lib = "connecting"
    /\ connPc = "awaiting"
    /\ lib' = "errored"
    /\ redisClient' = CatchOutcome.client
    /\ redisReady' = CatchOutcome.ready
    /\ connPc' = CatchOutcome.pc
    /\ connResult' = CatchOutcome.result
    /\ startup' = StartupAfter(CatchOutcome.pc)
    /\ connectFailed' = TRUE
    /\ alive' = ~CatchOutcome.exit
    /\ UNCHANGED << REDIS_ENABLED, cache, svc, req, other, connectAttempts, lostConn >>

\* history: the requests in flight that hold the client when it stops being ready
Raced ==
    [r \in Reqs |->
       IF req[r].pc \in {"get", "db", "set"} /\ req[r].redis # NULL
       THEN [req[r] EXCEPT !.raced = TRUE] ELSE req[r]]

\* the client emits "error"; it reconnects only under a reconnect strategy
ErrorEvent ==
    /\ lib = "ready"
    /\ redisReady' = OnError
    /\ lostConn' = (lostConn \/ redisReady)
    /\ IF reconnectStrategy /\ connectAttempts < MaxAttempts
       THEN /\ lib' = "connecting"
            /\ connectAttempts' = connectAttempts + 1
       ELSE /\ lib' = "errored"
            /\ UNCHANGED connectAttempts
    /\ req' = Raced
    /\ UNCHANGED << REDIS_ENABLED, redisClient, connPc, connResult, startup,
                    cache, svc, alive, other, connectFailed >>

\* the client emits "end"
EndEvent ==
    /\ lib \in {"ready", "errored"}
    /\ lib' = "ended"
    /\ redisReady' = OnEnd
    /\ lostConn' = (lostConn \/ redisReady)
    /\ req' = Raced
    /\ UNCHANGED << REDIS_ENABLED, redisClient, connPc, connResult, startup,
                    cache, svc, alive, other, connectAttempts, connectFailed >>

(* ------------------- backend/src/routes/products.js ------------------- *)

CacheResponse(d) == [status |-> StatusOK, source |-> "cache", data |-> d, error |-> ""]
DbResponseTaggedCache(d) == [status |-> StatusOK, source |-> "cache", data |-> d, error |-> ""]
DbResponse(d) == [status |-> StatusOK, source |-> "db", data |-> d, error |-> ""]
ErrorResponse ==
    [status |-> StatusError, source |-> "", data |-> << >>, error |-> "Internal server error"]

Respond(q, body) == [q EXCEPT !.resp = Append(@, body), !.pc = "done"]

\* the outer catch: res.status(500).json({ error })
RouteFailure(q) == Respond(q, ErrorResponse)

\* if (cached)
Truthy(c) == c.present /\ c.val # << >>

\* if (redis) { ... await redis.get(cacheKey) ... } else fall through to the source
AfterHandleStrict(q) ==
    IF q.redis # NULL THEN [q EXCEPT !.pc = "get", !.didGet = TRUE]
    ELSE RouteFailure(q)
AfterHandle(q) ==
    IF q.redis # NULL THEN [q EXCEPT !.pc = "get", !.didGet = TRUE]
    ELSE [q EXCEPT !.pc = "db"]

\* the inner catch around the read: warn and go on to the source
OnReadErrorUncaught(q) == RouteFailure(q)
OnReadErrorDropHandle(q) == [q EXCEPT !.pc = "db", !.redis = NULL]
OnReadError(q) == [q EXCEPT !.pc = "db"]

\* return res.json({ source: "cache", data })
OnHitFallThrough(q, d) == [q EXCEPT !.pc = "db", !.hit = TRUE]
OnHitNoReturn(q, d) ==
    [q EXCEPT !.hit = TRUE, !.resp = Append(@, CacheResponse(d)), !.pc = "db"]
OnHit(q, d) == Respond([q EXCEPT !.hit = TRUE], CacheResponse(d))

\* the continuation of await redis.get(cacheKey) with value c
OnCached(q, c) ==
    LET q1 == [q EXCEPT !.sawCorrupt = (c.present /\ ~JSONparse(c.val).ok)] IN
    IF Truthy(c)
    THEN IF JSONparse(c.val).ok
         THEN OnHit(q1, JSONparse(c.val).val)
         ELSE OnReadError(q1)
    ELSE [q1 EXCEPT !.pc = "db", !.miss = ~c.present]

\* the inner catch around the write: warn and go on to the response
OnWriteErrorUncaught(q) == RouteFailure([q EXCEPT !.setFailed = TRUE])
OnWriteError(q) == Respond([q EXCEPT !.setFailed = TRUE], DbResponse(Products))

\* the write resolved: go on to the response
OnWriteOk(q) == Respond([q EXCEPT !.setOk = TRUE], DbResponse(Products))

\* after the DB delay: if (redis) { await redis.setEx(...) } then respond
AfterSourceFireAndForget(q) ==
    Respond([q EXCEPT !.didSource = TRUE, !.didSet = (q.redis # NULL)],
            DbResponse(Products))
AfterSourceCoalesced(q) ==
    IF q.redis # NULL /\ ~Populated(cache)
    THEN [q EXCEPT !.didSource = TRUE, !.didSet = TRUE, !.pc = "set"]
    ELSE Respond([q EXCEPT !.didSource = TRUE], DbResponse(Products))
AfterSourceRefetch(q) ==
    IF getRedisClient # NULL
    THEN [q EXCEPT !.didSource = TRUE, !.didSet = TRUE, !.pc = "set"]
    ELSE Respond([q EXCEPT !.didSource = TRUE], DbResponse(Products))
AfterSourceAlwaysWrite(q) ==
    [q EXCEPT !.didSource = TRUE, !.didSet = TRUE, !.pc = "set"]
AfterSourceNoWrite(q) ==
    Respond([q EXCEPT !.didSource = TRUE], DbResponse(Products))
AfterSource(q) ==
    IF q.redis # NULL
    THEN [q EXCEPT !.didSource = TRUE, !.didSet = TRUE, !.pc = "set"]
    ELSE Respond([q EXCEPT !.didSource = TRUE], DbResponse(Products))

ReqFrame ==
    UNCHANGED << REDIS_ENABLED, redisClient, redisReady, connPc, connResult,
                 startup, lib, svc, alive, other, connectAttempts, connectFailed,
                 lostConn >>

\* what the handler leaves alone when a read has failed
ReadErrorFrameMarksDown ==
    /\ redisReady' = FALSE
    /\ UNCHANGED << REDIS_ENABLED, redisClient, connPc, connResult,
                    startup, lib, svc, alive, other, connectAttempts, connectFailed,
                    lostConn >>
ReadErrorFrame == ReqFrame

\* the entry redis.setEx(cacheKey, 60, JSON.stringify(v)) stores
SetExEntryHalfTTL(v) == [Entry(JSONstringify(v), TTL \div 2) EXCEPT !.written = TRUE]
SetExEntryFirstOnly(v) == [Entry(JSONstringify(<< v[1] >>), TTL) EXCEPT !.written = TRUE]
SetExEntryToString(v) ==
    [Entry(<< "[object Object]", ",", "[object Object]" >>, TTL) EXCEPT !.written = TRUE]
SetExEntryKeepTTL(v) ==
    [Entry(JSONstringify(v), IF cache.present THEN cache.ttl ELSE TTL)
       EXCEPT !.written = TRUE]
SetExEntry(v) == [Entry(JSONstringify(v), TTL) EXCEPT !.written = TRUE]

\* a request arrives: const redis = getRedisClient()
Start(r) ==
    /\ req[r].pc = "idle"
    /\ connPc # "init"
    /\ alive
    /\ LET q == [req[r] EXCEPT !.redis = getRedisClient,
                               !.afterFail = connectFailed,
                               !.afterLoss = lostConn]
       IN req' = [req EXCEPT ![r] = AfterHandle([q EXCEPT !.startedLive = Populated(cache)])]
    /\ UNCHANGED cache
    /\ ReqFrame

\* the entry once redis.get has read it: a get leaves the entry and its TTL
CacheAfterReadTouch(c) == IF c.present THEN [c EXCEPT !.ttl = TTL] ELSE c
CacheAfterRead(c) == c

\* redis.get resolves with the stored value
GetResolve(r) ==
    /\ req[r].pc = "get"
    /\ lib = "ready"
    /\ svc = "up"
    /\ req' = [req EXCEPT ![r] = OnCached(req[r], cache)]
    /\ cache' = CacheAfterRead(cache)
    /\ ReqFrame

\* an operation sent on the client can be rejected: the client is no longer
\* ready, or the service answers with an error; no timeout is set on commands
CanReject == lib # "ready" \/ svc = "up"

\* redis.get rejects
GetReject(r) ==
    /\ req[r].pc = "get"
    /\ CanReject
    /\ req' = [req EXCEPT ![r] = OnReadError([req[r] EXCEPT !.getFailed = TRUE])]
    /\ UNCHANGED cache
    /\ ReadErrorFrame

\* the 1500 ms timer fires and the product list is built
SourceDone(r) ==
    /\ req[r].pc = "db"
    /\ req' = [req EXCEPT ![r] = AfterSource(req[r])]
    /\ UNCHANGED cache
    /\ ReqFrame

\* redis.setEx(cacheKey, 60, JSON.stringify(products)) resolves
SetResolve(r) ==
    /\ req[r].pc = "set"
    /\ lib = "ready"
    /\ svc = "up"
    /\ cache' = SetExEntry(Products)
    /\ req' = [req EXCEPT ![r] = OnWriteOk(req[r])]
    /\ ReqFrame

\* redis.setEx rejects
SetReject(r) ==
    /\ req[r].pc = "set"
    /\ CanReject
    /\ req' = [req EXCEPT ![r] = OnWriteError(req[r])]
    /\ UNCHANGED cache
    /\ ReqFrame

\* the request is over; the slot serves the next request
Recycle(r) ==
    /\ req[r].pc = "done"
    /\ req' = [req EXCEPT ![r] = IdleReq]
    /\ UNCHANGED cache
    /\ ReqFrame

\* TickSeconds pass; the cache service drops the entry when its TTL runs out
Tick ==
    /\ cache.present
    /\ cache' = IF cache.ttl - TickSeconds <= 0 THEN Absent
                ELSE [cache EXCEPT !.ttl = @ - TickSeconds]
    /\ UNCHANGED req
    /\ ReqFrame

\* app.get("/health") and app.get("/api/users")
OtherFrame ==
    UNCHANGED << REDIS_ENABLED, redisClient, redisReady, connPc, connResult,
                 startup, lib, cache, svc, req, alive, connectAttempts,
                 connectFailed, lostConn >>

Health ==
    /\ alive
    /\ connPc # "init"
    /\ other' = HealthResponse
    /\ OtherFrame

Users ==
    /\ alive
    /\ connPc # "init"
    /\ other' = UsersResponse
    /\ OtherFrame

\* the cache service stops answering, or answers again
ServiceStalls ==
    /\ svc = "up"
    /\ lib = "ready"
    /\ svc' = "silent"
    /\ UNCHANGED << REDIS_ENABLED, redisClient, redisReady, connPc, connResult,
                    startup, lib, cache, req, alive, other, connectAttempts,
                    connectFailed, lostConn >>

ServiceResumes ==
    /\ svc = "silent"
    /\ svc' = "up"
    /\ UNCHANGED << REDIS_ENABLED, redisClient, redisReady, connPc, connResult,
                    startup, lib, cache, req, alive, other, connectAttempts,
                    connectFailed, lostConn >>

Next ==
    \/ ConnectRedis
    \/ ReadyEvent
    \/ ConnectReject
    \/ ErrorEvent
    \/ EndEvent
    \/ Tick
    \/ ServiceStalls
    \/ ServiceResumes
    \/ Health
    \/ Users
    \/ \E r \in Reqs : Start(r)
    \/ \E r \in Reqs : GetResolve(r)
    \/ \E r \in Reqs : GetReject(r)
    \/ \E r \in Reqs : SourceDone(r)
    \/ \E r \in Reqs : SetResolve(r)
    \/ \E r \in Reqs : SetReject(r)
    \/ \E r \in Reqs : Recycle(r)

Spec == Init /\ [][Next]_vars

\* the event loop runs every continuation that becomes ready: a timer that has
\* fired, a promise that settles; an operation that the service is again and
\* again able to answer is answered. Nothing obliges the service to answer.
LiveSpec ==
    /\ Spec
    /\ \A r \in Reqs :
         /\ SF_vars(GetResolve(r))
         /\ SF_vars(GetReject(r))
         /\ WF_vars(SourceDone(r))
         /\ SF_vars(SetResolve(r))
         /\ SF_vars(SetReject(r))

TypeOK ==
    /\ REDIS_ENABLED \in {"true", "false", "undefined"}
    /\ redisClient \in {NULL, CLIENT}
    /\ redisReady \in BOOLEAN
    /\ connPc \in {"init", "awaiting", "returned", "threw"}
    /\ lib \in {"none", "connecting", "ready", "errored", "ended"}
    /\ svc \in {"up", "silent"}
    /\ alive \in BOOLEAN
    /\ other \in {NoOther, HealthResponse, UsersResponse}
    /\ connectAttempts \in 0..MaxAttempts
    /\ \A r \in Reqs : req[r].pc \in {"idle", "get", "db", "set", "done"}

(* ------------------------------ properties ---------------------------- *)

Done(r) == req[r].pc = "done"
Responses(r) == {req[r].resp[i] : i \in DOMAIN req[r].resp}
AnsweredFromDb(r) == req[r].resp = << DbResponse(Products) >>

\* C1: once the connect() of connectRedis has rejected, every request that
\* starts afterwards issues no get and no set, sends nothing but the product
\* list tagged "db" with status 200, has sent exactly that when it is over, and
\* getRedisClient returns null from then on.
C1_FailSoftAtStartup ==
    /\ connectFailed => getRedisClient = NULL
    /\ \A r \in Reqs :
         req[r].afterFail =>
           /\ req[r].redis = NULL
           /\ ~req[r].didGet /\ ~req[r].didSet
           /\ Responses(r) \subseteq {DbResponse(Products)}
           /\ Done(r) => AnsweredFromDb(r)

C1_Witness ==
    /\ connectFailed
    /\ \A r \in Reqs : req[r].afterFail /\ Done(r) /\ AnsweredFromDb(r)

\* C2: after the connection was ready and then reported "error" or "end",
\* every request that starts afterwards sends only the product list tagged
\* "db" with status 200, and no second connection attempt is ever made.
C2_DegradeMidSession ==
    /\ connectAttempts <= 1
    /\ \A r \in Reqs :
         req[r].afterLoss =>
           /\ Responses(r) \subseteq {DbResponse(Products)}
           /\ Done(r) => AnsweredFromDb(r)

C2_Witness ==
    /\ lostConn
    /\ connectAttempts = 1
    /\ \E r \in Reqs : req[r].afterLoss /\ Done(r) /\ AnsweredFromDb(r)

\* C3: whatever fails in the cache layer (connect, get, set, a payload that
\* does not parse), every response sent has status 200, a source tag and the
\* data; no request ever sends the status-500 error response, and a finished
\* request has sent exactly one response.
C3_NoCacheErrorSurfaces ==
    \A r \in Reqs :
      /\ \A b \in Responses(r) :
           /\ b.status = StatusOK
           /\ b.source \in {"cache", "db"}
           /\ b.data = Products
           /\ b.error = ""
      /\ Done(r) => Len(req[r].resp) = 1

C3_Witness ==
    \E r1, r2 \in Reqs :
      /\ Done(r1) /\ req[r1].getFailed /\ req[r1].didSet /\ ~req[r1].setOk
      /\ req[r1].resp[1].status = StatusOK
      /\ Done(r2) /\ req[r2].sawCorrupt /\ req[r2].resp[1].status = StatusOK

\* C4: when REDIS_ENABLED is not "true", no connection attempt is made, no
\* client exists, no request issues a get or a set, and every response is the
\* product list tagged "db".
C4_DisabledNoCacheIO ==
    REDIS_ENABLED # "true" =>
      /\ connectAttempts = 0
      /\ lib = "none"
      /\ redisClient = NULL
      /\ \A r \in Reqs :
           /\ req[r].redis = NULL
           /\ ~req[r].didGet /\ ~req[r].didSet
           /\ Responses(r) \subseteq {DbResponse(Products)}
           /\ Done(r) => AnsweredFromDb(r)

C4_Witness ==
    /\ REDIS_ENABLED = "undefined"
    /\ connPc = "returned"
    /\ \E r \in Reqs : Done(r) /\ AnsweredFromDb(r)

\* C5: once the connect attempt has failed, or the ready flag has gone from
\* true to false on an "error" or "end" event, the ready flag is false in
\* every later state.
C5_NeverRecovers ==
    (connectFailed \/ lostConn) => ~redisReady

C5_Witness ==
    /\ lostConn
    /\ lib = "ended"
    /\ ~redisReady
    /\ \E r \in Reqs : req[r].afterLoss /\ Done(r)

\* C6: the ready flag is false in every state in which REDIS_ENABLED is not
\* "true".
C6_ReadyImpliesEnabled ==
    REDIS_ENABLED # "true" => ~redisReady

C6_Witness ==
    /\ REDIS_ENABLED = "false"
    /\ startup = "completed"
    /\ ~redisReady
    /\ \A r \in Reqs : Done(r)

\* C7: in every state getRedisClient returns the client exactly when
\* REDIS_ENABLED is "true" and the ready flag is true, and null otherwise; the
\* handle a request holds is the client or null.
C7_HandleIffEnabledAndReady ==
    /\ getRedisClient = CLIENT <=> (REDIS_ENABLED = "true" /\ redisReady)
    /\ getRedisClient \in {CLIENT, NULL}
    /\ \A r \in Reqs : req[r].redis \in {CLIENT, NULL}

C7_Witness ==
    /\ REDIS_ENABLED = "true"
    /\ redisClient = CLIENT
    /\ ~redisReady
    /\ getRedisClient = NULL
    /\ \E r1, r2 \in Reqs :
         /\ req[r1].pc # "idle" /\ req[r1].redis = CLIENT
         /\ req[r2].pc # "idle" /\ req[r2].redis = NULL

\* C8: connectRedis never throws; when its connect() has rejected it has
\* returned null with the ready flag false and the client reset, and the
\* start-up IIFE of app.js has completed without entering its catch.
C8_ConnectNeverFailsCaller ==
    /\ connPc # "threw"
    /\ startup # "caught"
    /\ connectFailed =>
         /\ connPc = "returned"
         /\ connResult = NULL
         /\ ~redisReady
         /\ redisClient = NULL
         /\ startup = "completed"

C8_Witness ==
    /\ connectFailed
    /\ connPc = "returned"
    /\ startup = "completed"
    /\ lib = "errored"

\* C9: a request whose get returned a non-empty value that parses has, in
\* that very step, sent the parsed value tagged "cache" and is over; it never
\* runs the source step.
C9_HitSkipsSource ==
    \A r \in Reqs :
      req[r].hit =>
        /\ Done(r)
        /\ req[r].resp = << CacheResponse(Products) >>
        /\ ~req[r].didSource
        /\ ~req[r].didSet

C9_Witness ==
    \E r \in Reqs :
      /\ req[r].hit /\ Done(r)
      /\ req[r].resp[1].source = "cache"
      /\ ~req[r].didSource

CorruptHandled(r) ==
    /\ ~req[r].hit
    /\ req[r].pc \in {"db", "set", "done"}
    /\ Responses(r) \subseteq {DbResponse(Products)}
    /\ Done(r) => AnsweredFromDb(r) /\ req[r].didSource /\ req[r].didSet

\* C10 as stated: a request that read a stored value that is not JSON ends
\* with the product list tagged "db" and has overwritten the entry.
C10_CorruptOverwritten ==
    \A r \in Reqs :
      (req[r].sawCorrupt /\ Done(r)) =>
        /\ AnsweredFromDb(r)
        /\ req[r].setOk

\* C10 (amended): a request that read a stored value that is not JSON is
\* treated as a miss: it goes on to the source, sends only the product list
\* tagged "db", has issued a setEx when it is over, and whenever that setEx
\* succeeds the entry becomes the serialized product list with TTL 60.
C10_CorruptTreatedAsMiss ==
    [][\A r \in Reqs :
         req'[r].sawCorrupt =>
           /\ CorruptHandled(r)'
           /\ (~req[r].setOk /\ req'[r].setOk) =>
                cache' = SetExEntry(Products)]_vars

C10_Witness ==
    \E r \in Reqs :
      /\ req[r].sawCorrupt /\ Done(r) /\ req[r].setOk
      /\ AnsweredFromDb(r)
      /\ cache = SetExEntry(Products)

\* what the handler itself holds of a request: its position, its handle and
\* what it has sent (the other fields are history)
Program(q) == [pc |-> q.pc, redis |-> q.redis, resp |-> q.resp]

MissPath(r) ==
    /\ req[r].redis = CLIENT
    /\ ~req[r].hit
    /\ req[r].pc \in {"db", "set", "done"}
    /\ req[r].pc \in {"set", "done"} => req[r].didSource /\ req[r].didSet
    /\ req[r].pc = "db" => ~req[r].didSource /\ ~req[r].didSet
    /\ Responses(r) \subseteq {DbResponse(Products)}
    /\ Done(r) => AnsweredFromDb(r)

\* C11: for a request awaiting its get, the rejection of the get leaves the
\* handler in the same position, with the same handle and the same responses,
\* as a get that resolves to null; and a request whose get failed runs the
\* same steps as one whose get returned null: the source, then a setEx on the
\* handle it holds, then the product list tagged "db".
C11_FailedGetIsAMiss ==
    \A r \in Reqs :
      /\ req[r].pc = "get" =>
           Program(OnReadError(req[r])) = Program(OnCached(req[r], Absent))
      /\ req[r].getFailed => MissPath(r)
      /\ req[r].miss => MissPath(r)

C11_Witness ==
    \E r1, r2 \in Reqs :
      /\ req[r1].getFailed /\ Done(r1) /\ req[r1].didSet
      /\ req[r2].miss /\ Done(r2) /\ req[r2].didSet
      /\ req[r1].resp = req[r2].resp
      /\ req[r1].redis = req[r2].redis

\* C12: for a request awaiting its setEx, the response sent when the setEx
\* rejects is the response sent when it resolves; every request that issued
\* a setEx and is over has sent the product list tagged "db" with status 200,
\* whether the setEx succeeded or failed.
C12_FailedWriteSameResponse ==
    \A r \in Reqs :
      /\ req[r].pc = "set" =>
           Program(OnWriteError(req[r])) = Program(OnWriteOk(req[r]))
      /\ (req[r].didSet /\ Done(r)) =>
           /\ AnsweredFromDb(r)
           /\ req[r].setOk # req[r].setFailed

C12_Witness ==
    \E r1, r2 \in Reqs :
      /\ Done(r1) /\ req[r1].setFailed
      /\ Done(r2) /\ req[r2].setOk
      /\ req[r1].resp = req[r2].resp
      /\ req[r1].resp = << DbResponse(Products) >>

WritePending(r) == req[r].didSet /\ ~req[r].setOk /\ ~req[r].setFailed

\* C13 as stated: the response does not wait for the write: whenever a setEx
\* has been issued and has not completed, the response has already been sent.
C13_RespondsWithoutWaiting ==
    \A r \in Reqs : WritePending(r) => req[r].resp # NoResponse

\* C13 (amended): the handler awaits the setEx: while the setEx is pending no
\* response has been sent, and a request that issued a setEx has sent its
\* response only once the setEx has resolved or rejected; the rejection itself
\* is swallowed (the response is the product list tagged "db").
C13_RespondsAfterWrite ==
    \A r \in Reqs :
      /\ req[r].pc = "set" => WritePending(r) /\ req[r].resp = NoResponse
      /\ (req[r].didSet /\ req[r].resp # NoResponse) =>
           /\ ~WritePending(r)
           /\ AnsweredFromDb(r)

C13_Witness ==
    \E r1, r2 \in Reqs :
      /\ req[r1].pc = "set" /\ svc = "silent" /\ lib = "ready"
      /\ req[r1].resp = NoResponse
      /\ Done(r2) /\ req[r2].setFailed /\ AnsweredFromDb(r2)

InFlight(r) == req[r].pc \in {"get", "db", "set"}

\* C14: every request that has started eventually sends its response, because
\* a get or a setEx that the service never answers is given up after a timeout.
C14_EveryFetchResponds ==
    \A r \in Reqs : InFlight(r) ~> Done(r)

\* the step in which the get of request r resolves
GetResolved(r) ==
    req[r].pc = "get" /\ req'[r].pc # "get" /\ ~req'[r].getFailed

\* the step in which the setEx of request r resolves
SetResolved(r) ==
    req[r].pc = "set" /\ req'[r].setOk

\* C15 as stated: a request that started while the entry written by an earlier
\* fetch was still live, and whose get did not fail, answers with the product
\* list tagged "cache".
C15_StartedWithinTTLHits ==
    \A r \in Reqs :
      (req[r].startedLive /\ req[r].redis = CLIENT /\ ~req[r].getFailed /\ Done(r)) =>
        req[r].resp = << CacheResponse(Products) >>

\* C15 (amended): with the cache ready, a request whose get finds the key
\* absent and whose setEx resolves answers the product list tagged "db" and
\* leaves the entry holding the serialized list with TTL 60; a later request
\* whose get is answered while that entry is live answers the same list
\* tagged "cache".
C15_ScenarioA ==
    [][\A r \in Reqs :
         /\ (req[r].miss /\ SetResolved(r)) =>
              /\ cache' = [present |-> TRUE, val |-> JSONstringify(Products),
                           ttl |-> 60, written |-> TRUE]
              /\ req'[r].resp = << DbResponse(Products) >>
         /\ (GetResolved(r) /\ Populated(cache)) =>
              /\ req'[r].hit
              /\ req'[r].resp = << CacheResponse(Products) >>]_vars

C15_Witness ==
    \E r1, r2 \in Reqs :
      /\ Done(r1) /\ req[r1].miss /\ req[r1].setOk /\ AnsweredFromDb(r1)
      /\ Done(r2) /\ req[r2].startedLive /\ req[r2].hit
      /\ req[r2].resp = << CacheResponse(Products) >>
      /\ req[r2].resp[1].data = req[r1].resp[1].data
      /\ Populated(cache)

\* C16: while an entry written by a fetch is live, every response sent, be it
\* tagged "cache" or "db", carries the same data: the product list that the
\* populating fetch returned.
C16_SameDataWithinTTL ==
    [][\A r \in Reqs :
         (Populated(cache) /\ req[r].resp = NoResponse /\ req'[r].resp # NoResponse) =>
           /\ Len(req'[r].resp) = 1
           /\ req'[r].resp[1].status = StatusOK
           /\ req'[r].resp[1].source \in {"cache", "db"}
           /\ req'[r].resp[1].data = Products
           /\ \A o \in Reqs : \A b \in Responses(o) : b.data = req'[r].resp[1].data]_vars

C16_Witness ==
    \E r1, r2 \in Reqs :
      /\ Populated(cache)
      /\ Done(r1) /\ req[r1].startedLive /\ req[r1].resp[1].source = "cache"
      /\ Done(r2) /\ req[r2].startedLive /\ req[r2].resp[1].source = "db"
      /\ req[r1].resp[1].data = req[r2].resp[1].data

\* lists of at most MaxListLen objects with an id and a name
JsonObjects == [id : DOMAIN NumTok, name : Names]
JsonLists == UNION {[1..n -> JsonObjects] : n \in 0..MaxListLen}

\* C17: JSON.parse gives back every list JSON.stringify was given; an entry
\* written by setEx and not yet expired holds the serialized product list, a
\* get answered then returns it, and parsing it gives the product list that
\* was serialized for the write.
C17_RoundTrip ==
    /\ \A v \in JsonLists : JSONparse(JSONstringify(v)) = [ok |-> TRUE, val |-> v]
    /\ Populated(cache) =>
         /\ cache.val = JSONstringify(Products)
         /\ cache.ttl \in 1..TTL
         /\ JSONparse(cache.val) = [ok |-> TRUE, val |-> Products]
         /\ \A r \in Reqs :
              req[r].pc = "get" => Program(OnCached(req[r], cache)).resp
                                     = << CacheResponse(Products) >>

C17_Witness ==
    /\ Populated(cache)
    /\ \E r1, r2 \in Reqs :
         /\ Done(r1) /\ req[r1].setOk
         /\ Done(r2) /\ req[r2].startedLive /\ req[r2].hit
         /\ req[r2].resp[1].data = Products

\* C18: a request on the source path never waits for another request: its
\* source step can always run; and every request that held the client and
\* did not hit has, once past the source step, run the source itself and
\* issued its own setEx, whatever the other requests have done.
C18_NoCoalescing ==
    \A r \in Reqs :
      /\ req[r].pc = "db" => ENABLED SourceDone(r)
      /\ (req[r].redis = CLIENT /\ ~req[r].hit /\ req[r].pc \in {"set", "done"}) =>
           req[r].didSource /\ req[r].didSet
      /\ req[r].setOk => req[r].didSource

C18_Witness ==
    /\ \A r \in Reqs : req[r].miss /\ req[r].pc = "set" /\ req[r].didSource
    /\ lib = "ready"

\* C19: a request that held the client when the connection reported "error"
\* or "end" sends nothing but the product list tagged "db" with status 200,
\* and exactly that when it is over; the rejection of its get or of its setEx
\* is caught: the get's leads on to the source, the setEx's to the response.
C19_StaleHandleCaught ==
    \A r \in Reqs :
      req[r].raced =>
        /\ req[r].redis = CLIENT
        /\ Responses(r) \subseteq {DbResponse(Products)}
        /\ Done(r) => AnsweredFromDb(r)
        /\ req[r].pc = "get" => Program(OnReadError(req[r])).pc = "db"
        /\ req[r].pc = "set" =>
             Program(OnWriteError(req[r])).resp = << DbResponse(Products) >>

C19_Witness ==
    \E r \in Reqs :
      /\ req[r].raced /\ Done(r)
      /\ req[r].getFailed /\ req[r].setFailed
      /\ AnsweredFromDb(r)
      /\ ~redisReady

\* C20: a step of the handler (one that moves a request) changes neither
\* redisClient nor redisReady; the steps that change them are those of
\* connectRedis and of the "ready", "end" and "error" listeners, which move
\* no request.
C20_FetchLeavesConnection ==
    [][/\ (\E r \in Reqs : req'[r].pc # req[r].pc) =>
            (redisClient' = redisClient /\ redisReady' = redisReady)
       /\ (redisClient' # redisClient \/ redisReady' # redisReady) =>
            /\ lib' # lib
            /\ \A r \in Reqs : Program(req'[r]) = Program(req[r])]_vars

C20_Witness ==
    /\ redisReady
    /\ redisClient = CLIENT
    /\ \E r1, r2 \in Reqs :
         /\ Done(r1) /\ req[r1].getFailed /\ req[r1].setOk
         /\ Done(r2) /\ req[r2].hit

\* what a caller sees of a request apart from the provenance tag: whether it
\* is idle, being served or over, and the status and data of what was sent
Obs(q) ==
    [pc |-> IF q.pc \in {"get", "db", "set"} THEN "busy" ELSE q.pc,
     out |-> [i \in DOMAIN q.resp |->
                [status |-> q.resp[i].status, data |-> q.resp[i].data]]]

\* the handler run with the cache disabled: getRedisClient gave null
DisabledStart == AfterHandle(IdleReq)
DisabledEnd == AfterSource(DisabledStart)

\* one step of a request of the process whose cache is disabled
DisabledStep(a, b) ==
    \/ a = Obs(IdleReq) /\ b = Obs(DisabledStart)
    \/ a = Obs(DisabledStart) /\ b = Obs(DisabledEnd)
    \/ a = Obs(DisabledEnd) /\ b = Obs(IdleReq)

\* C21: apart from the provenance tag, every step of every request of any
\* process is a step the process with the cache disabled takes (same status,
\* same data, one response), and when REDIS_ENABLED is not "true" every
\* response is tagged "db".
C21_DisabledDiffersOnlyInTag ==
    /\ [](REDIS_ENABLED # "true" =>
            \A r \in Reqs : \A b \in Responses(r) : b.source = "db")
    /\ [][\A r \in Reqs :
            \/ Obs(req'[r]) = Obs(req[r])
            \/ DisabledStep(Obs(req[r]), Obs(req'[r]))]_vars

C21_Witness ==
    /\ REDIS_ENABLED = "true"
    /\ \E r1, r2 \in Reqs :
         /\ Done(r1) /\ req[r1].resp[1].source = "cache"
         /\ Done(r2) /\ req[r2].resp[1].source = "db" /\ req[r2].setFailed
         /\ Obs(req[r1]) = Obs(DisabledEnd)
         /\ Obs(req[r2]) = Obs(DisabledEnd)

\* C22: at most one connection attempt is made in any execution: the one of
\* connectRedis; the client is connecting only while connectRedis awaits it.
C22_SingleConnectionAttempt ==
    /\ connectAttempts <= 1
    /\ connectAttempts = 1 <=> (REDIS_ENABLED = "true" /\ connPc # "init")
    /\ lib = "connecting" => connPc = "awaiting"

C22_Witness ==
    /\ connectAttempts = 1
    /\ lostConn
    /\ lib = "ended"
    /\ \A r \in Reqs : Done(r) /\ req[r].afterLoss

C24_ProvenanceTruthful ==
    \A r \in Reqs : \A b \in Responses(r) :
      /\ b.source \in {"cache", "db"}
      /\ b.source = "cache" =>
           req[r].didGet /\ req[r].hit /\ ~req[r].didSource /\ ~req[r].getFailed
      /\ b.source = "db" => req[r].didSource /\ ~req[r].hit

C24_Witness ==
    \E r1, r2 \in Reqs :
      /\ Done(r1) /\ req[r1].resp[1].source = "cache" /\ req[r1].hit
      /\ Done(r2) /\ req[r2].resp[1].source = "db" /\ req[r2].didSource
      /\ req[r2].sawCorrupt

\* C25: within a request the get, if any, is over before the source runs; a
\* setEx is issued only once the source has run; and a setEx is issued only
\* by a request that took the source path holding the client.
C25_StepOrder ==
    /\ [](\A r \in Reqs :
            /\ req[r].pc = "get" => req[r].didGet /\ ~req[r].didSource /\ ~req[r].didSet
            /\ req[r].didGet => req[r].redis = CLIENT
            /\ req[r].didSet => req[r].didSource /\ req[r].redis = CLIENT /\ ~req[r].hit)
    /\ [][\A r \in Reqs :
            /\ (~req[r].didSource /\ req'[r].didSource) => req[r].pc = "db"
            /\ (~req[r].didSet /\ req'[r].didSet) =>
                 req[r].pc = "db" /\ req'[r].didSource /\ req[r].redis = CLIENT
            /\ (~req[r].didGet /\ req'[r].didGet) => req[r].pc = "idle"]_vars

C25_Witness ==
    \E r1, r2 \in Reqs :
      /\ Done(r1) /\ req[r1].didGet /\ req[r1].didSource /\ req[r1].didSet
      /\ Done(r2) /\ req[r2].redis = NULL /\ req[r2].didSource /\ ~req[r2].didSet

\* C26: every setEx that succeeds leaves under the key the serialized product
\* list with TTL 60, whatever entry was there and whichever request wrote
\* last; so after concurrent writes the entry is the same whatever their order.
C26_LastWriterWins ==
    [][\A r \in Reqs :
         SetResolved(r) =>
           /\ cache'.present /\ cache'.written
           /\ cache'.val = JSONstringify(Products)
           /\ cache'.ttl = 60
           /\ \A o \in Reqs :
                (o # r /\ req[o].setOk /\ Populated(cache)) => cache'.val = cache.val]_vars

C26_Witness ==
    /\ \A r \in Reqs : Done(r) /\ req[r].setOk /\ req[r].miss
    /\ cache.present /\ cache.val = JSONstringify(Products) /\ cache.ttl = TTL

\* C27: a request that is over has sent exactly one response, and a request
\* that is not over has sent none, along every path of the handler.
C27_ExactlyOneResponse ==
    \A r \in Reqs :
      /\ Done(r) => Len(req[r].resp) = 1
      /\ ~Done(r) => Len(req[r].resp) = 0

C27_Witness ==
    \E r1, r2 \in Reqs :
      /\ Done(r1) /\ req[r1].hit /\ Len(req[r1].resp) = 1
      /\ Done(r2) /\ req[r2].redis = NULL /\ Len(req[r2].resp) = 1

\* C28: the handle a request read at its start is the one it keeps: a request
\* that read null issues neither a get nor a setEx and goes from the source
\* straight to its response, even when getRedisClient would by then return
\* the client.
C28_HandleDecidedOnce ==
    /\ [](\A r \in Reqs :
            (req[r].pc # "idle" /\ req[r].redis = NULL) =>
              /\ ~req[r].didGet /\ ~req[r].didSet
              /\ req[r].pc \in {"db", "done"}
              /\ Done(r) => AnsweredFromDb(r))
    /\ [][\A r \in Reqs :
            (req[r].pc # "idle" /\ req'[r].pc # "idle") =>
              req'[r].redis = req[r].redis]_vars

C28_Witness ==
    /\ redisReady
    /\ getRedisClient = CLIENT
    /\ \E r \in Reqs :
         /\ Done(r) /\ req[r].redis = NULL
         /\ req[r].didSource /\ ~req[r].didGet /\ ~req[r].didSet

\* the step is the passage of time on the entry: it loses TTL or expires
Aged(c, d) ==
    /\ c.present
    /\ \/ d = Absent
       \/ d.present /\ d.val = c.val /\ d.written = c.written /\ d.ttl < c.ttl

\* C29: the get of a request leaves the entry and its TTL as they are, hit or
\* not; the entry changes only by a setEx of a request that ran the source and
\* did not hit, which sets TTL 60, or by time running down its TTL; a hit
\* reads an entry whose TTL of at most 60 seconds has not run out.
C29_HitDoesNotWrite ==
    /\ [](\A r \in Reqs : req[r].hit => ~req[r].didSet /\ ~req[r].setOk)
    /\ [](cache.present => cache.ttl \in 1..60)
    /\ [][/\ \A r \in Reqs :
               GetResolved(r) =>
                 /\ cache' = cache
                 /\ req'[r].hit => cache.present /\ cache.ttl \in 1..60
          /\ cache' # cache =>
               \/ \E r \in Reqs :
                    /\ SetResolved(r)
                    /\ req'[r].didSource /\ ~req'[r].hit
                    /\ cache'.ttl = 60
               \/ (req' = req /\ Aged(cache, cache'))]_vars

C29_Witness ==
    \E r1, r2 \in Reqs :
      /\ Done(r1) /\ req[r1].setOk
      /\ Done(r2) /\ req[r2].hit /\ req[r2].startedLive
      /\ Populated(cache) /\ cache.ttl < TTL

\* C30: in every state, redisReady being true implies that redisClient is
\* not null.
C30_ReadyImpliesClient ==
    redisReady => redisClient # NULL

C30_Witness ==
    /\ redisReady
    /\ redisClient = CLIENT
    /\ connResult = CLIENT
    /\ \E r \in Reqs : Done(r) /\ req[r].redis = CLIENT

====
